---- MODULE Spec2Model ----
(***************************************************************************)
(* Model of generate_icon.py: the procedural icon renderer create_icon and *)
(* its driver create_iconset.                                              *)
(*                                                                         *)
(* Lengths are fixed-point numbers: a pixel length v is held as the        *)
(* integer v * Scale, and a length that the code divides by a loop count   *)
(* is held as the pair <<numerator, denominator>> of such integers, so     *)
(* every coordinate is exact.  Arguments of math.sin are held as exact     *)
(* fractions of a turn; the sine itself is not evaluated.                  *)
(***************************************************************************)
EXTENDS Integers, Sequences, FiniteSets, TLC

\* Bounds of the model (not program constants).
MaxSize == 260
MaxCalls == 3

Scale == 10000

VARIABLES
    pc,        \* position of create_iconset
    fs,        \* the path ScreenshotManager.iconset on disk
    idx,       \* 1-based index of the manifest entry the loop is at
    console,   \* the lines printed so far
    trace,     \* history: the externally visible events so far, in order
    size,      \* create_icon: its argument
    img,       \* create_icon: its local img
    ipc,       \* create_icon: position inside the function
    icon,      \* the canvas create_icon last returned
    calls,     \* history: the arguments of the calls of create_icon so far
    rendered,  \* history: per size, the first canvas returned for it
    fault      \* the operation that raised, "none" while running

vars == <<pc, fs, idx, console, trace, size, img, ipc, icon, calls, rendered, fault>>

Max(a, b) == IF a >= b THEN a ELSE b
Min(a, b) == IF a <= b THEN a ELSE b

\* Python's int() on a fixed-point number: truncation towards zero.
int(v) == IF v >= 0 THEN v \div Scale ELSE -((-v) \div Scale)

\* A whole fixed-point value as a fraction.
Px(v) == <<v, 1>>

Range(f) == {f[i] : i \in DOMAIN f}

----------------------------------------------------------------------------
\* create_iconset: the output directory and the size manifest.

iconset_dir == "ScreenshotManager.iconset"

sizes_dup_name ==
    << <<16, "icon_16x16.png">>,      <<32, "icon_16x16@2x.png">>,
       <<32, "icon_32x32.png">>,      <<64, "icon_32x32@2x.png">>,
       <<128, "icon_128x128.png">>,   <<256, "icon_128x128@2x.png">>,
       <<256, "icon_256x256.png">>,   <<512, "icon_256x256.png">>,
       <<512, "icon_512x512.png">>,   <<1024, "icon_512x512@2x.png">> >>

sizes ==
    << <<16, "icon_16x16.png">>,      <<32, "icon_16x16@2x.png">>,
       <<32, "icon_32x32.png">>,      <<64, "icon_32x32@2x.png">>,
       <<128, "icon_128x128.png">>,   <<256, "icon_128x128@2x.png">>,
       <<256, "icon_256x256.png">>,   <<512, "icon_256x256@2x.png">>,
       <<512, "icon_512x512.png">>,   <<1024, "icon_512x512@2x.png">> >>

ManifestSizes == {sizes[k][1] : k \in DOMAIN sizes}
ManifestNames == {sizes[k][2] : k \in DOMAIN sizes}

\* Sizes the renderer is exercised with outside the driver.
TestSizes == (1..MaxSize) \cup ManifestSizes
OtherSizes == {256}

----------------------------------------------------------------------------
\* create_icon: the geometry derived from size (lines 17-25, 70-80).

padding(sz) == sz * (Scale \div 10)
icon_size(sz) == sz * Scale - padding(sz) * 2
center(sz) == (sz * Scale) \div 2
bg_size(sz) == (icon_size(sz) * 95) \div 100
bg_padding(sz) == (sz * Scale - bg_size(sz)) \div 2
bg_rect(sz) ==
    << bg_padding(sz), bg_padding(sz),
       sz * Scale - bg_padding(sz), sz * Scale - bg_padding(sz) >>

border_width(sz) == Max(2, sz \div 48)

frame_size(sz) == (icon_size(sz) * 6) \div 10
frame_x(sz) == center(sz) - frame_size(sz) \div 2
frame_y(sz) == center(sz) - frame_size(sz) \div 2 - sz * (Scale \div 20)
frame_thickness(sz) == Max(2, sz \div 32)
num_steps(sz) == Max(4, sz \div 32)

inner_padding(sz) == frame_thickness(sz) * 2 * Scale
inner_rect(sz) ==
    << frame_x(sz) + inner_padding(sz),
       frame_y(sz) + inner_padding(sz),
       frame_x(sz) + frame_size(sz) - inner_padding(sz),
       frame_y(sz) + frame_size(sz) - inner_padding(sz) >>
inner_height(sz) == inner_rect(sz)[4] - inner_rect(sz)[2]
inner_width(sz) == inner_rect(sz)[3] - inner_rect(sz)[1]
step(sz) == Max(1, sz \div 32)

num_dots(sz) == Max(3, sz \div 64)
dot_size(sz) == Max(1, sz \div 64) * Scale

shutter_size(sz) == sz * ((Scale * 15) \div 100)
shutter_x(sz) == frame_x(sz) + frame_size(sz) - (shutter_size(sz) * 3) \div 10
shutter_y(sz) == frame_y(sz) - (shutter_size(sz) * 2) \div 10
shutter_radius(sz) == shutter_size(sz) \div 2
inner_radius(sz) == (shutter_radius(sz) * 6) \div 10
highlight_radius(sz) == (inner_radius(sz) * 3) \div 10

----------------------------------------------------------------------------
\* create_icon: the drawing operations, in the order the code issues them.

\* Line 14: a fully transparent size x size canvas.
Image_new_reused(sz) ==
    [width |-> sz, height |-> sz, ops |-> img.ops]
Image_new(sz) ==
    [width |-> sz, height |-> sz, ops |-> <<>>]

\* Lines 37-41: the background panel.
Background(sz) ==
    [op |-> "rounded_rectangle",
     box |-> [j \in 1..4 |-> Px(bg_rect(sz)[j])],
     radius |-> Px(sz * (Scale \div 5)),
     fill |-> <<240, 245, 255, 200>>]

\* Lines 47-53: the colour of border ring i.
RingColor(i) == <<100 + i * 5, 150 + i * 3, 255 - i * 2, 150 - i * 20>>

\* Lines 46-66: the border rings, ring i inset by i pixels.
Ring(sz, i) ==
    [op |-> "rounded_rectangle",
     box |-> << Px(bg_rect(sz)[1] + i * Scale), Px(bg_rect(sz)[2] + i * Scale),
                Px(bg_rect(sz)[3] - i * Scale), Px(bg_rect(sz)[4] - i * Scale) >>,
     radius |-> Px(sz * (Scale \div 5) - i * (Scale \div 2)),
     outline |-> RingColor(i),
     width |-> 1]
Rings(sz) == [k \in 1..border_width(sz) |-> Ring(sz, k - 1)]

\* Lines 87, 98, 109, 120: the angle of segment i of a side, as a fraction of
\* a turn: <<numerator, denominator>> with denominator 2 * num_steps.  The
\* sides are numbered 0 (top), 1 (right), 2 (bottom), 3 (left); side k adds
\* k * 0.5 turns.
angle(sz, side, i) ==
    << side * num_steps(sz) + 2 * i, 2 * num_steps(sz) >>

\* Lines 88-90: the three sine arguments of a segment colour, in turns.
SegmentColor(sz, side, i) ==
    LET a == angle(sz, side, i)
    IN  [r |-> <<3 * a[1], 3 * a[2]>>,
         g |-> <<3 * a[1] + a[2], 3 * a[2]>>,
         b |-> <<3 * a[1] + 2 * a[2], 3 * a[2]>>,
         a |-> 255]

\* Lines 83-124: segment i of a side.  The cut points along the side are
\* fractions with denominator num_steps.
Segment(sz, side, i) ==
    LET n  == num_steps(sz)
        fx == frame_x(sz)
        fy == frame_y(sz)
        fsz == frame_size(sz)
        ft == frame_thickness(sz) * Scale
        lo(base) == <<base * n + i * fsz, n>>
        hi(base) == <<base * n + (i + 1) * fsz, n>>
        rlo(base) == <<(base + fsz) * n - (i + 1) * fsz, n>>
        rhi(base) == <<(base + fsz) * n - i * fsz, n>>
    IN  [op |-> "rectangle",
         side |-> side,
         index |-> i,
         box |-> CASE side = 0 -> <<lo(fx), Px(fy + fsz - ft), hi(fx), Px(fy + fsz)>>
                   [] side = 1 -> <<Px(fx + fsz - ft), rlo(fy), Px(fx + fsz), rhi(fy)>>
                   [] side = 2 -> <<rlo(fx), Px(fy), rhi(fx), Px(fy + ft)>>
                   [] side = 3 -> <<Px(fx), lo(fy), Px(fx + ft), hi(fy)>>,
         angle |-> angle(sz, side, i),
         fill |-> SegmentColor(sz, side, i)]
Side(sz, side) == [k \in 1..num_steps(sz) |-> Segment(sz, side, k - 1)]

\* Lines 127-137: the outline just outside the frame.
FrameOutline(sz) ==
    [op |-> "rounded_rectangle",
     box |-> << Px(frame_x(sz) - Scale), Px(frame_y(sz) - Scale),
                Px(frame_x(sz) + frame_size(sz) + Scale),
                Px(frame_y(sz) + frame_size(sz) + Scale) >>,
     radius |-> Px(sz * ((Scale * 8) \div 100)),
     outline |-> <<255, 255, 255, 180>>,
     width |-> Max(1, sz \div 128)]

\* Line 154: range(int(inner_rect[1]), int(inner_rect[3]), step).
BandStarts(sz) ==
    LET lo == int(inner_rect(sz)[2])
        hi == int(inner_rect(sz)[4])
        n  == IF hi > lo THEN (hi - lo + step(sz) - 1) \div step(sz) ELSE 0
    IN  [k \in 1..n |-> lo + (k - 1) * step(sz)]

\* Lines 156-172: the band starting at row y.  progress is the fraction
\* <<y - inner_rect[1], inner_height>>; the ripple is the sine of
\* progress * 2 turns and is carried as its argument.
Band(sz, y) ==
    LET h  == inner_height(sz)
        pn == IF h > 0 THEN y * Scale - inner_rect(sz)[2] ELSE 0
        pd == IF h > 0 THEN h ELSE 1
        y_end == Min(int(inner_rect(sz)[4]), y + step(sz))
    IN  [op |-> "rectangle",
         box |-> << Px(int(inner_rect(sz)[1]) * Scale), Px(y * Scale),
                    Px(int(inner_rect(sz)[3]) * Scale), Px(y_end * Scale) >>,
         y |-> y,
         y_end |-> y_end,
         progress |-> <<pn, pd>>,
         base |-> << (220 * pd + pn * 20) \div pd,
                     (230 * pd + pn * 15) \div pd,
                     (250 * pd - pn * 30) \div pd >>,
         alpha |-> 200]
Bands(sz) ==
    LET ys == BandStarts(sz)
        all == [k \in DOMAIN ys |-> Band(sz, ys[k])]
    IN  SelectSeq(all, LAMBDA b : b.y_end > b.y)

\* Lines 183-188: the dot palette.
colors ==
    << <<255, 120, 120, 180>>, <<120, 200, 255, 180>>,
       <<120, 255, 180, 180>>, <<255, 220, 120, 180>> >>

\* Lines 177-197: dot i.
Dot(sz, i) ==
    LET d  == num_dots(sz) + 1
        h  == inner_height(sz)
        dx == inner_rect(sz)[1] * d + (i + 1) * inner_width(sz)
        dy == inner_rect(sz)[2] + (h * 3) \div 10 + (i % 2) * ((h * 4) \div 10)
        ds == dot_size(sz)
    IN  [op |-> "ellipse",
         box |-> << <<dx - ds * d, d>>, Px(dy - ds), <<dx + ds * d, d>>, Px(dy + ds) >>,
         fill |-> colors[(i % Len(colors)) + 1]]
Dots(sz) == [k \in 1..num_dots(sz) |-> Dot(sz, k - 1)]

\* Lines 209-243: the shutter glyph: outer ring, inner circle, highlight.
Shutter(sz) ==
    LET cx == shutter_x(sz)
        cy == shutter_y(sz)
        sr == shutter_radius(sz)
        ir == inner_radius(sz)
        hr == highlight_radius(sz)
        up == (ir * 2) \div 10
    IN  << [op |-> "ellipse",
            box |-> <<Px(cx - sr), Px(cy - sr), Px(cx + sr), Px(cy + sr)>>,
            fill |-> <<255, 100, 100, 255>>,
            outline |-> <<255, 255, 255, 200>>,
            width |-> Max(1, sz \div 64)],
           [op |-> "ellipse",
            box |-> <<Px(cx - ir), Px(cy - ir), Px(cx + ir), Px(cy + ir)>>,
            fill |-> <<255, 255, 255, 255>>],
           [op |-> "ellipse",
            box |-> <<Px(cx - hr), Px(cy - hr - up), Px(cx + hr), Px(cy + hr - up)>>,
            fill |-> <<255, 255, 255, 150>>] >>

\* Line 247: img.filter(ImageFilter.GaussianBlur(radius=0.5)) returns a new
\* image of the same dimensions holding the filtered pixels.
GaussianBlurPadded(image) ==
    [width |-> image.width + 2, height |-> image.height + 2,
     ops |-> Append(image.ops, [op |-> "GaussianBlur", radius |-> <<1, 2>>])]
GaussianBlur(image) ==
    [width |-> image.width, height |-> image.height,
     ops |-> Append(image.ops, [op |-> "GaussianBlur", radius |-> <<1, 2>>])]

\* Line 246: the blur threshold.
NeedsBlurAbove(sz) == sz > 256
NeedsBlur(sz) == sz >= 256

----------------------------------------------------------------------------
\* The path ScreenshotManager.iconset: absent, a regular file, or a directory
\* whose entries are stale (left by an earlier run), partial (a save that
\* raised) or a PNG of the recorded dimensions.

NoImage == [width |-> 0, height |-> 0, ops |-> <<>>]
Entry(st, w, h) == [state |-> st, width |-> w, height |-> h]
StaleNames == {"icon_16x16.png", "icon_512x512@2x.png", "old.txt", "subdir"}
DirWith(names) ==
    [kind |-> "dir", files |-> [f \in names |-> Entry("stale", 0, 0)]]
AbsentPath == [kind |-> "absent", files |-> [f \in {} |-> Entry("stale", 0, 0)]]
FilePath == [kind |-> "file", files |-> [f \in {} |-> Entry("stale", 0, 0)]]
InitialPaths == {AbsentPath, FilePath} \cup {DirWith(ns) : ns \in SUBSET StaleNames}

Event(e, a, k) == [ev |-> e, arg |-> a, n |-> k]

\* Lines 276, 278, 282-284: the printed lines.  The check-mark character of
\* line 282 is written [U+2705].
HeaderLine == "Generating icon sizes..."
ProgressLine(k) ==
    "  Creating " \o sizes[k][2] \o " (" \o ToString(sizes[k][1]) \o "x"
        \o ToString(sizes[k][1]) \o ")..."
SummaryLines ==
    << "\n[U+2705] Icon set created: " \o iconset_dir \o "/",
       "\nTo convert to .icns format, run:",
       "  iconutil -c icns " \o iconset_dir >>

driverVars == <<pc, fs, idx, console, trace, fault>>
iconVars == <<size, img, ipc, icon, calls, rendered>>

----------------------------------------------------------------------------
\* create_iconset (lines 251-286).

Init ==
    /\ pc = "start"
    /\ fs \in InitialPaths
    /\ idx = 1
    /\ console = <<>>
    /\ trace = <<>>
    /\ size = 0
    /\ img = NoImage
    /\ ipc = "idle"
    /\ icon = NoImage
    /\ calls = <<>>
    /\ rendered = [s \in {} |-> NoImage]
    /\ fault = "none"

\* Lines 256-258: os.path.exists, then shutil.rmtree removes the whole tree.
RemoveExistingSkip ==
    /\ pc = "start"
    /\ fs.kind # "file"
    /\ pc' = IF fs.kind = "dir" THEN "header" ELSE "makedirs"
    /\ UNCHANGED <<fs, trace, idx, console, fault>>
    /\ UNCHANGED iconVars
RemoveExisting ==
    /\ pc = "start"
    /\ fs.kind # "file"
    /\ IF fs.kind = "dir"
       THEN /\ fs' = AbsentPath
            /\ trace' = Append(trace, Event("rmtree", iconset_dir,
                                            Cardinality(DOMAIN fs.files)))
       ELSE UNCHANGED <<fs, trace>>
    /\ pc' = "makedirs"
    /\ UNCHANGED <<idx, console, fault>>
    /\ UNCHANGED iconVars

\* Line 258 raising: on a regular file rmtree always raises; on a directory
\* it may raise (permissions) after removing any part of the tree.
RmtreeFault ==
    /\ pc = "start"
    /\ fs.kind # "absent"
    /\ \/ fs.kind = "file" /\ UNCHANGED fs
       \/ /\ fs.kind = "dir"
          /\ \E left \in SUBSET DOMAIN fs.files :
                fs' = [fs EXCEPT !.files = [f \in left |-> fs.files[f]]]
    /\ trace' = Append(trace, Event("rmtree", iconset_dir, 0))
    /\ fault' = "rmtree"
    /\ pc' = "fault"
    /\ UNCHANGED <<idx, console>>
    /\ UNCHANGED iconVars

\* Line 260: os.makedirs creates the empty directory.
Makedirs ==
    /\ pc = "makedirs"
    /\ fs.kind = "absent"
    /\ fs' = DirWith({})
    /\ trace' = Append(trace, Event("makedirs", iconset_dir, 0))
    /\ pc' = "header"
    /\ UNCHANGED <<idx, console, fault>>
    /\ UNCHANGED iconVars

\* Line 260 raising.
MakedirsFault ==
    /\ pc = "makedirs"
    /\ trace' = Append(trace, Event("makedirs", iconset_dir, 0))
    /\ fault' = "makedirs"
    /\ pc' = "fault"
    /\ UNCHANGED <<fs, idx, console>>
    /\ UNCHANGED iconVars

\* Line 276.
PrintHeader ==
    /\ pc = "header"
    /\ console' = Append(console, HeaderLine)
    /\ trace' = Append(trace, Event("print", HeaderLine, 0))
    /\ pc' = "loop"
    /\ UNCHANGED <<fs, idx, fault>>
    /\ UNCHANGED iconVars

\* Lines 277-278: the loop takes the next entry and prints its progress line.
PrintProgressSkipped ==
    /\ pc = "loop"
    /\ idx <= Len(sizes)
    /\ pc' = "render"
    /\ UNCHANGED <<fs, idx, fault, console, trace>>
    /\ UNCHANGED iconVars
PrintProgress ==
    /\ pc = "loop"
    /\ idx <= Len(sizes)
    /\ console' = Append(console, ProgressLine(idx))
    /\ trace' = Append(trace, Event("print", ProgressLine(idx), idx))
    /\ pc' = "render"
    /\ UNCHANGED <<fs, idx, fault>>
    /\ UNCHANGED iconVars

\* Line 279: the call create_icon(size).
CallCreateIcon ==
    /\ pc = "render"
    /\ ipc = "idle"
    /\ size' = sizes[idx][1]
    /\ ipc' = "new"
    /\ calls' = Append(calls, sizes[idx][1])
    /\ trace' = Append(trace, Event("create_icon", sizes[idx][2], idx))
    /\ pc' = "in_create_icon"
    /\ UNCHANGED <<fs, idx, console, fault, img, icon, rendered>>

\* Line 279 raising: any statement of create_icon raises (for instance no
\* memory for the canvas); nothing catches it.
RenderFault ==
    /\ pc = "in_create_icon"
    /\ ipc # "idle"
    /\ ipc' = "idle"
    /\ fault' = "create_icon"
    /\ pc' = "fault"
    /\ UNCHANGED <<fs, idx, console, trace, size, img, icon, calls, rendered>>

\* Line 280: icon.save writes the PNG under the entry's filename.
Save ==
    /\ pc = "save"
    /\ fs.kind = "dir"
    /\ fs' = [fs EXCEPT !.files =
                [f \in DOMAIN fs.files \cup {sizes[idx][2]} |->
                    IF f = sizes[idx][2]
                    THEN Entry("png", icon.width, icon.height)
                    ELSE fs.files[f]]]
    /\ trace' = Append(trace, Event("save", sizes[idx][2], idx))
    /\ idx' = idx + 1
    /\ pc' = "loop"
    /\ UNCHANGED <<console, fault>>
    /\ UNCHANGED iconVars

\* Line 280 raising (disk full, permission denied): the file is missing or
\* left partially written.
SaveFaultSwallowed ==
    /\ pc = "save"
    /\ trace' = Append(trace, Event("save", sizes[idx][2], idx))
    /\ fault' = "save"
    /\ idx' = idx + 1
    /\ pc' = "loop"
    /\ UNCHANGED <<fs, console>>
    /\ UNCHANGED iconVars
SaveFault ==
    /\ pc = "save"
    /\ \/ UNCHANGED fs
       \/ fs' = [fs EXCEPT !.files =
                   [f \in DOMAIN fs.files \cup {sizes[idx][2]} |->
                       IF f = sizes[idx][2]
                       THEN Entry("partial", 0, 0)
                       ELSE fs.files[f]]]
    /\ trace' = Append(trace, Event("save", sizes[idx][2], idx))
    /\ fault' = "save"
    /\ pc' = "fault"
    /\ UNCHANGED <<idx, console>>
    /\ UNCHANGED iconVars

\* Lines 282-286: the loop is exhausted; the summary is printed and the
\* directory name returned.
PrintSummary ==
    /\ pc = "loop"
    /\ idx > Len(sizes)
    /\ console' = console \o SummaryLines
    /\ trace' = trace \o [k \in 1..Len(SummaryLines) |->
                            Event("print", SummaryLines[k], 0)]
    /\ pc' = "done"
    /\ UNCHANGED <<fs, idx, fault>>
    /\ UNCHANGED iconVars

----------------------------------------------------------------------------
\* create_icon (lines 11-249), one action per drawing stage.

Draw(from, to, newOps) ==
    /\ ipc = from
    /\ img' = [img EXCEPT !.ops = @ \o newOps]
    /\ ipc' = to
    /\ UNCHANGED <<size, icon, calls, rendered>>
    /\ UNCHANGED driverVars

\* Lines 14-15.
NewImage ==
    /\ ipc = "new"
    /\ img' = Image_new(size)
    /\ ipc' = "background"
    /\ UNCHANGED <<size, icon, calls, rendered>>
    /\ UNCHANGED driverVars

\* Lines 37-41.
DrawBackground == Draw("background", "border", <<Background(size)>>)
\* Lines 44-66.
DrawBorder == Draw("border", "top", Rings(size))
\* Lines 83-91.
DrawTop == Draw("top", "right", Side(size, 0))
\* Lines 94-102.
DrawRight == Draw("right", "bottom", Side(size, 1))
\* Lines 105-113.
DrawBottom == Draw("bottom", "left", Side(size, 2))
\* Lines 116-124.
DrawLeft == Draw("left", "outline", Side(size, 3))
\* Lines 127-137.
DrawOutline == Draw("outline", "inner", <<FrameOutline(size)>>)
\* Lines 140-172.
DrawInner == Draw("inner", "dots", Bands(size))
\* Lines 176-197.
DrawDots == Draw("dots", "shutter", Dots(size))
\* Lines 200-243.
DrawShutter == Draw("shutter", "blur", Shutter(size))

\* Lines 246-247.
Blur ==
    /\ ipc = "blur"
    /\ img' = IF NeedsBlur(size) THEN GaussianBlur(img) ELSE img
    /\ ipc' = "return"
    /\ UNCHANGED <<size, icon, calls, rendered>>
    /\ UNCHANGED driverVars

\* Line 249: the canvas goes back to the caller.
ReturnIcon ==
    /\ ipc = "return"
    /\ icon' = img
    /\ rendered' = [s \in DOMAIN rendered \cup {size} |->
                       IF s \in DOMAIN rendered THEN rendered[s] ELSE img]
    /\ ipc' = "idle"
    /\ pc' = IF pc = "in_create_icon" THEN "save" ELSE pc
    /\ UNCHANGED <<size, img, calls>>
    /\ UNCHANGED <<fs, idx, console, trace, fault>>

Next ==
    \/ RemoveExisting \/ RmtreeFault
    \/ Makedirs \/ MakedirsFault
    \/ PrintHeader \/ PrintProgress
    \/ CallCreateIcon \/ RenderFault
    \/ Save \/ SaveFault
    \/ PrintSummary
    \/ NewImage \/ DrawBackground \/ DrawBorder
    \/ DrawTop \/ DrawRight \/ DrawBottom \/ DrawLeft
    \/ DrawOutline \/ DrawInner \/ DrawDots \/ DrawShutter
    \/ Blur \/ ReturnIcon

Spec == Init /\ [][Next]_vars

----------------------------------------------------------------------------
\* create_icon called directly, any size, several times in a row.

InitIcon ==
    /\ pc = "caller"
    /\ fs = AbsentPath
    /\ idx = 1
    /\ console = <<>>
    /\ trace = <<>>
    /\ size = 0
    /\ img = NoImage
    /\ ipc = "idle"
    /\ icon = NoImage
    /\ calls = <<>>
    /\ rendered = [s \in {} |-> NoImage]
    /\ fault = "none"

\* A call create_icon(s): the first with any size, a later one with a size
\* already rendered or one of OtherSizes.
Call(s) ==
    /\ pc = "caller"
    /\ ipc = "idle"
    /\ Len(calls) < MaxCalls
    /\ s \in (IF calls = <<>> THEN TestSizes ELSE DOMAIN rendered \cup OtherSizes)
    /\ size' = s
    /\ ipc' = "new"
    /\ calls' = Append(calls, s)
    /\ UNCHANGED <<img, icon, rendered>>
    /\ UNCHANGED driverVars

NextIcon ==
    \/ \E s \in TestSizes : Call(s)
    \/ NewImage \/ DrawBackground \/ DrawBorder
    \/ DrawTop \/ DrawRight \/ DrawBottom \/ DrawLeft
    \/ DrawOutline \/ DrawInner \/ DrawDots \/ DrawShutter
    \/ Blur \/ ReturnIcon

SpecIcon == InitIcon /\ [][NextIcon]_vars

----------------------------------------------------------------------------
\* Properties of create_iconset.

IsPrefix(a, b) == Len(a) <= Len(b) /\ \A i \in 1..Len(a) : a[i] = b[i]
Count(seq, Test(_)) == Cardinality({i \in DOMAIN seq : Test(seq[i])})
IsPng(f) == f \in DOMAIN fs.files /\ fs.files[f].state = "png"
EntryEvents == {"create_icon", "save"}

\* C1: when create_iconset has completed, the directory holds exactly the 10
\* manifest files, all of them written by this run, whatever the path held
\* before; an existing directory is removed entirely before it is created
\* again, and removal and creation both come before the first save.
C1_FreshIconset ==
    /\ pc = "done" =>
          /\ fs.kind = "dir"
          /\ DOMAIN fs.files = ManifestNames
          /\ Cardinality(DOMAIN fs.files) = 10
          /\ \A f \in DOMAIN fs.files : fs.files[f].state = "png"
    /\ pc = "makedirs" => fs = AbsentPath
    /\ pc = "header" => fs = DirWith({})
    /\ \A i, j \in DOMAIN trace :
          /\ trace[i].ev = "rmtree" /\ trace[j].ev = "makedirs" => i < j
          /\ trace[i].ev \in {"rmtree", "makedirs"} /\ trace[j].ev = "save" => i < j
    /\ (\E j \in DOMAIN trace : trace[j].ev = "save") =>
          \E i \in DOMAIN trace : trace[i].ev = "makedirs"

\* C1 witness: a run that started from a directory holding every stale name
\* has completed.
C1_Witness ==
    /\ pc = "done"
    /\ trace[1].ev = "rmtree"
    /\ trace[1].n = Cardinality(StaleNames)

\* C2: the canvas handed to save for a manifest entry, and the PNG stored
\* under the entry's filename, are exactly size x size pixels, for unblurred
\* and blurred sizes alike.
C2_CanvasDimensions ==
    /\ pc = "save" => icon.width = sizes[idx][1] /\ icon.height = sizes[idx][1]
    /\ \A k \in DOMAIN sizes :
          IsPng(sizes[k][2]) =>
              /\ fs.files[sizes[k][2]].width = sizes[k][1]
              /\ fs.files[sizes[k][2]].height = sizes[k][1]

\* C2 witness: all entries are saved, the last one (1024) through the blur,
\* the first one (16) without it.
C2_Witness ==
    /\ pc = "done"
    /\ icon.ops[Len(icon.ops)].op = "GaussianBlur"
    /\ IsPng("icon_16x16.png") /\ fs.files["icon_16x16.png"].width = 16
    /\ IsPng("icon_512x512@2x.png") /\ fs.files["icon_512x512@2x.png"].width = 1024

\* The naming convention of the manifest: icon_NxN.png, icon_NxN@2x.png.
FileName(n, scale) ==
    "icon_" \o ToString(n) \o "x" \o ToString(n)
        \o (IF scale = 2 THEN "@2x" ELSE "") \o ".png"

\* C6: the manifest has exactly 10 entries, dimensions from 16 to 1024 in
\* non-decreasing order, pairwise distinct filenames (no save overwrites an
\* earlier one), and each dimension agrees with its filename: N for
\* icon_NxN.png and 2N for icon_NxN@2x.png.
C6_Manifest ==
    /\ Len(sizes) = 10
    /\ sizes[1][1] = 16 /\ sizes[Len(sizes)][1] = 1024
    /\ \A k \in 1..(Len(sizes) - 1) : sizes[k][1] <= sizes[k + 1][1]
    /\ \A j, k \in DOMAIN sizes : j # k => sizes[j][2] # sizes[k][2]
    /\ \A k \in DOMAIN sizes :
          \E n \in 1..sizes[k][1] :
              \/ sizes[k][2] = FileName(n, 1) /\ sizes[k][1] = n
              \/ sizes[k][2] = FileName(n, 2) /\ sizes[k][1] = 2 * n
    /\ \A f \in ManifestNames :
          Count(trace, LAMBDA e : e.ev = "save" /\ e.arg = f) <= 1
    /\ pc = "save" => sizes[idx][2] \notin DOMAIN fs.files

\* C6 witness: the loop has gone through the whole manifest.
C6_Witness ==
    /\ pc = "done"
    /\ Count(trace, LAMBDA e : e.ev = "save") = 10

\* C9: a fault while rendering or saving entry k ends the run there: nothing
\* runs afterwards, entries 1..k-1 have each been saved exactly once and are
\* on disk, the directory holds nothing else except possibly a partial k-th
\* file, entry k was attempted once, no later entry was attempted and the
\* summary was not printed.
C9_FaultEndsRun ==
    fault \in {"create_icon", "save"} =>
        /\ pc = "fault"
        /\ ~ENABLED Next
        /\ fs.kind = "dir"
        /\ \A j \in 1..(idx - 1) :
              /\ IsPng(sizes[j][2])
              /\ Count(trace, LAMBDA e : e.ev = "save" /\ e.n = j) = 1
              /\ Count(trace, LAMBDA e : e.ev = "create_icon" /\ e.n = j) = 1
        /\ DOMAIN fs.files \subseteq {sizes[j][2] : j \in 1..idx}
        /\ sizes[idx][2] \in DOMAIN fs.files =>
              fs.files[sizes[idx][2]].state = "partial"
        /\ Count(trace, LAMBDA e : e.ev = "create_icon" /\ e.n = idx) = 1
        /\ Count(trace, LAMBDA e : e.ev = "save" /\ e.n = idx) <= 1
        /\ \A i \in DOMAIN trace : trace[i].ev \in EntryEvents => trace[i].n <= idx
        /\ \A i \in DOMAIN console : console[i] \notin Range(SummaryLines)

\* C9 witness: the save of the fifth entry raised and left a partial file.
C9_Witness ==
    /\ fault = "save"
    /\ idx = 5
    /\ sizes[5][2] \in DOMAIN fs.files
    /\ fs.files[sizes[5][2]].state = "partial"
    /\ IsPng(sizes[4][2])

\* The events of a complete run after the optional rmtree, as <<event, text>>.
ExpectedEvents ==
    LET entry(k) == << <<"print", ProgressLine(k)>>,
                       <<"create_icon", sizes[k][2]>>,
                       <<"save", sizes[k][2]>> >>
    IN  << <<"makedirs", iconset_dir>>, <<"print", HeaderLine>> >>
        \o [i \in 1..(3 * Len(sizes)) |-> entry((i + 2) \div 3)[((i + 2) % 3) + 1]]
        \o [k \in 1..Len(SummaryLines) |-> <<"print", SummaryLines[k]>>]

ObservedEvents ==
    LET sig == [i \in DOMAIN trace |-> <<trace[i].ev, trace[i].arg>>]
    IN  IF sig # <<>> /\ sig[1][1] = "rmtree" THEN Tail(sig) ELSE sig

\* C10: the console shows one header line, then one progress line per entry
\* in manifest order, each printed before that entry is rendered and saved,
\* then, only once all 10 files are saved, the summary naming the directory
\* and the iconutil command; no event other than these ever happens, so the
\* packaging utility is never run.
C10_ConsoleOrder ==
    /\ IsPrefix(ObservedEvents, ExpectedEvents)
    /\ console = [i \in 1..Count(trace, LAMBDA e : e.ev = "print") |->
                    SelectSeq(trace, LAMBDA e : e.ev = "print")[i].arg]
    /\ ProgressLine(1) = "  Creating icon_16x16.png (16x16)..."
    /\ ProgressLine(10) = "  Creating icon_512x512@2x.png (1024x1024)..."
    /\ \A i \in DOMAIN console :
          console[i] \in Range(SummaryLines) =>
              \A k \in DOMAIN sizes : IsPng(sizes[k][2])
    /\ pc = "done" =>
          /\ ObservedEvents = ExpectedEvents
          /\ Len(console) = 1 + Len(sizes) + Len(SummaryLines)
          /\ console[Len(console)] = "  iconutil -c icns ScreenshotManager.iconset"
          /\ console[Len(console) - 2] = "\n[U+2705] Icon set created: ScreenshotManager.iconset/"

\* C10 witness: a complete run, with its 14 printed lines.
C10_Witness ==
    /\ pc = "done"
    /\ Len(console) = 14
    /\ console[1] = "Generating icon sizes..."

----------------------------------------------------------------------------
\* Properties of create_icon.

IsBlur(o) == o.op = "GaussianBlur"
BlurCount(image) == Count(image.ops, IsBlur)

\* The number of drawing calls create_icon issues for a size.
DrawingCalls(sz) ==
    1 + border_width(sz) + 4 * num_steps(sz) + 1 + Len(Bands(sz))
      + num_dots(sz) + Len(Shutter(sz))

\* C3: a canvas of size < 256 is never blurred; a canvas of size >= 256 is
\* blurred exactly once, with radius 1/2, after every drawing call and as the
\* last operation before it is returned.
C3_BlurThreshold ==
    /\ ipc = "return" /\ size < 256 =>
          /\ BlurCount(img) = 0
          /\ Len(img.ops) = DrawingCalls(size)
    /\ ipc = "return" /\ size >= 256 =>
          /\ BlurCount(img) = 1
          /\ Len(img.ops) = DrawingCalls(size) + 1
          /\ img.ops[Len(img.ops)] = [op |-> "GaussianBlur", radius |-> <<1, 2>>]
    /\ ipc \notin {"idle", "new", "return"} => BlurCount(img) = 0
    /\ \A s \in DOMAIN rendered :
          BlurCount(rendered[s]) = IF s >= 256 THEN 1 ELSE 0

\* C3 witness: size 255 was returned unblurred and size 256 is about to be
\* returned blurred.
C3_Witness ==
    /\ ipc = "return"
    /\ size = 256 /\ BlurCount(img) = 1
    /\ 255 \in DOMAIN rendered /\ BlurCount(rendered[255]) = 0

\* C4: a call of create_icon returns the same canvas (same dimensions, same
\* operations with the same arguments) as the first call with that size did,
\* whatever was rendered in between.
C4_Deterministic ==
    ipc = "return" /\ size \in DOMAIN rendered => img = rendered[size]

\* C4 witness: a third call repeats the size of the first, with a call for
\* another size in between.
C4_Witness ==
    /\ ipc = "return"
    /\ Len(calls) = 3
    /\ calls[1] = calls[3] /\ calls[2] # calls[1]
    /\ calls[1] \in DOMAIN rendered /\ calls[2] \in DOMAIN rendered

\* The frame segments drawn so far, in drawing order.
FrameSegments ==
    SelectSeq(img.ops, LAMBDA o : o.op = "rectangle" /\ "side" \in DOMAIN o)

\* C5 (as claimed): once the four sides are drawn, the segment angles along
\* top, right, bottom, left start at 0 and advance by one constant step from
\* each segment to the next, across the corners too, and the last segment of
\* the left side lies one step before a full turn.  Angles are compared
\* modulo a full turn.
C5_ContinuousSweep ==
    ipc = "outline" =>
        LET segs == FrameSegments
            n    == num_steps(size)
            turn == 2 * n
            ph(k) == segs[k].angle[1]
            d    == ph(2) - ph(1)
        IN  /\ Len(segs) = 4 * n
            /\ \A k \in 1..Len(segs) : segs[k].angle[2] = turn
            /\ ph(1) = 0
            /\ \A k \in 1..(Len(segs) - 1) : (ph(k + 1) - ph(k) - d) % turn = 0
            /\ (ph(Len(segs)) + d) % turn = 0

\* The border rings drawn so far, in drawing order.
BorderRings ==
    SelectSeq(img.ops, LAMBDA o : o.op = "rounded_rectangle" /\ "outline" \in DOMAIN o
                                   /\ o.width = 1 /\ o.outline # <<255, 255, 255, 180>>)

\* C7 (as claimed): once the border is drawn, every ring colour has its four
\* channels in 0..255 and the alpha decreases strictly from ring to ring.
C7_RingColours ==
    ipc = "top" =>
        LET rings == BorderRings
        IN  /\ Len(rings) = Max(2, size \div 48)
            /\ \A i \in DOMAIN rings :
                  /\ \A c \in 1..4 : rings[i].outline[c] \in 0..255
                  /\ i > 1 => rings[i].outline[4] < rings[i - 1].outline[4]

\* The interior bands drawn so far, in drawing order.
InnerBands ==
    SelectSeq(img.ops, LAMBDA o : o.op = "rectangle" /\ "y_end" \in DOMAIN o)

\* C8 (as claimed): once the interior is drawn, the interior rectangle has
\* positive width and height, at least one band was drawn, and the bands
\* cover every integer row from the interior's top to its bottom.
C8_InteriorBands ==
    ipc = "dots" =>
        LET bands == InnerBands
            r  == inner_rect(size)
        IN  /\ r[3] - r[1] > 0
            /\ r[4] - r[2] > 0
            /\ Len(bands) >= 1
            /\ \A row \in int(r[2])..(int(r[4]) - 1) :
                  \E k \in DOMAIN bands : bands[k].y <= row /\ row < bands[k].y_end

====
